---- MODULE Spec2Model ----
(***************************************************************************)
(* The tunnel relay of openuds: one client connection handled by           *)
(* uds_tunnel.tunnel.TunnelProtocol (src/tunnel-server/src/uds_tunnel/     *)
(* tunnel.py), the open_other_side task it spawns, the backend-side engine *)
(* it is paired with, the two asyncio transports and the broker requests.  *)
(*                                                                         *)
(* Byte strings are sequences of integers 0..255.  Every method of the     *)
(* engine is a function from program state to program state (a record, see *)
(* State), so that a handler is the composition of the calls it makes; an  *)
(* action of the model is one callback of the event loop run to its end.   *)
(***************************************************************************)
EXTENDS Integers, Sequences, FiniteSets, TLC

(***************************************************************************)
(* Bounds of the model.                                                    *)
(***************************************************************************)
\* longest payload the client sends after its command
MaxPayload == 2

\* the number of connections the listener is given, and the largest value
\* of the workers parameter
MaxConns == 3

MaxWorkers == 2
\* longest stream the backend sends
MaxBackendPayload == 2
\* bytes a transport buffers before it calls pause_writing on its protocol
HighWater == 2

(***************************************************************************)
(* consts.py (not among the sources: the values are those of the wire      *)
(* framing table of the specification).                                    *)
(***************************************************************************)
COMMAND_LENGTH == 4
TICKET_LENGTH == 48
PASSWORD_LENGTH == 40
COMMAND_OPEN == <<79, 80, 69, 78>>
COMMAND_TEST == <<84, 69, 83, 84>>
COMMAND_STAT == <<83, 84, 65, 84>>
COMMAND_INFO == <<73, 78, 70, 79>>

\* the replies the engine writes, as the bytes of the literals in tunnel.py
B_OK == <<79, 75>>
B_ERROR_TICKET == <<69, 82, 82, 79, 82, 95, 84, 73, 67, 75, 69, 84>>
B_ERROR_COMMAND == <<69, 82, 82, 79, 82, 95, 67, 79, 77, 77, 65, 78, 68>>
B_FORBIDDEN == <<70, 79, 82, 66, 73, 68, 68, 69, 78>>

(***************************************************************************)
(* Byte strings.                                                           *)
(***************************************************************************)
Rep(n, b) == [i \in 1..n |-> b]

Drop(s, n) == SubSeq(s, n + 1, Len(s))

Take(s, n) == SubSeq(s, 1, n)

\* UTF-8: the length of the sequence a lead byte announces, 0 for a byte
\* that cannot start a sequence (a continuation byte, C0, C1, F5..FF)
Utf8Need(b) ==
    IF b < 128 THEN 1
    ELSE IF b >= 194 /\ b <= 223 THEN 2
    ELSE IF b >= 224 /\ b <= 239 THEN 3
    ELSE IF b >= 240 /\ b <= 244 THEN 4
    ELSE 0

\* the range of the second byte of a sequence, which excludes overlong
\* forms, surrogates and code points above U+10FFFF
Utf8SecondOK(lead, b) ==
    CASE lead = 224 -> b >= 160 /\ b <= 191
      [] lead = 237 -> b >= 128 /\ b <= 159
      [] lead = 240 -> b >= 144 /\ b <= 191
      [] lead = 244 -> b >= 128 /\ b <= 143
      [] OTHER -> b >= 128 /\ b <= 191

Utf8Cont(b) == b >= 128 /\ b <= 191

\* a well-formed sequence starts at the head of bs
Utf8HeadOK(bs) ==
    LET n == Utf8Need(bs[1]) IN
    /\ n > 0
    /\ Len(bs) >= n
    /\ n >= 2 => Utf8SecondOK(bs[1], bs[2])
    /\ \A i \in 3..n : Utf8Cont(bs[i])

\* the code point of the well-formed sequence at the head of bs
Utf8HeadCodePoint(bs) ==
    LET n == Utf8Need(bs[1]) IN
    CASE n = 1 -> bs[1]
      [] n = 2 -> (bs[1] - 192) * 64 + (bs[2] - 128)
      [] n = 3 -> (bs[1] - 224) * 4096 + (bs[2] - 128) * 64 + (bs[3] - 128)
      [] OTHER -> (bs[1] - 240) * 262144 + (bs[2] - 128) * 4096
                  + (bs[3] - 128) * 64 + (bs[4] - 128)

\* bytes.decode(errors='ignore'): the code points of the well-formed
\* sequences, every byte that belongs to none of them being skipped
RECURSIVE decode_ignore(_)
decode_ignore(bs) ==
    IF bs = <<>> THEN <<>>
    ELSE IF Utf8HeadOK(bs)
         THEN <<Utf8HeadCodePoint(bs)>> \o decode_ignore(Drop(bs, Utf8Need(bs[1])))
         ELSE decode_ignore(Drop(bs, 1))

\* bytes.decode(): raises UnicodeDecodeError unless every byte belongs to a
\* well-formed sequence; TRUE when it does not raise
RECURSIVE decode_strict_ok(_)
decode_strict_ok(bs) ==
    IF bs = <<>> THEN TRUE
    ELSE /\ Utf8HeadOK(bs)
         /\ decode_strict_ok(Drop(bs, Utf8Need(bs[1])))

\* str.encode(): the UTF-8 bytes of the code points, which are below U+0800
\* in this model
RECURSIVE str_encode(_)
str_encode(chars) ==
    IF chars = <<>> THEN <<>>
    ELSE (IF Head(chars) < 128 THEN <<Head(chars)>>
          ELSE <<192 + (Head(chars) \div 64), 128 + (Head(chars) % 64)>>)
         \o str_encode(Tail(chars))

\* the character test of getTicketFromUDS, on a code point
IsTicketChar(c) ==
    \/ c >= 97 /\ c <= 122
    \/ c >= 48 /\ c <= 57
    \/ c >= 65 /\ c <= 90

\* the sanity checks of getTicketFromUDS pass (no ValueError)
ticket_sane(ticket) ==
    /\ Len(ticket) = TICKET_LENGTH
    /\ LET chars == decode_ignore(ticket) IN
       \A i \in 1..Len(chars) : IsTicketChar(chars[i])

\* url_ticket_ok with the ticket decoded as getTicketFromUDS decodes it,
\* errors='ignore': the url is built whatever the bytes
url_ticket_lenient(ticket) == Len(decode_ignore(ticket)) >= 0

\* the url of _readFromUDS can be built: ticket.decode() does not raise
url_ticket_ok(ticket) == decode_strict_ok(ticket)

(***************************************************************************)
(* The state of the program.                                               *)
(***************************************************************************)
VARIABLES
    cstream,        \* all the bytes the client sends on the connection
    rx,             \* by side, the bytes data_received passed to do_proxy
    cin,            \* the bytes the client has still to send
    cgot,           \* the number of bytes the client has sent
    bin,            \* the bytes the backend has still to send
    srcAllowed,     \* the client's address is in cfg.allow
    transport,      \* the two asyncio transports, by side
    wcalls,         \* by side, the calls of transport.write, in order
    other_side,     \* TunnelProtocol.other_side, by side
    runner,         \* TunnelProtocol.runner, by side
    cmd,            \* TunnelProtocol.cmd, by side
    notify_ticket,  \* TunnelProtocol.notify_ticket, by side
    destination,    \* TunnelProtocol.destination, by side
    finished,       \* TunnelProtocol.finished is set, by side
    stats_manager,  \* TunnelProtocol.stats_manager, by side: "session" is
                    \* the Stats object the client-side engine creates
    stats,          \* the Stats object of the session
    task,           \* the open_other_side task of the client-side engine
    notifyTasks,    \* the notifyEndToUds tasks created and not yet run
    upstream,       \* the requests issued to the broker, in order
    connects,       \* the calls of loop.create_connection
    logs,           \* the lines logged at info or error level, in order
    fails,          \* the failure counter the relay keeps for the address
                    \* of the client
    workers,        \* the workers parameter of the configuration
    live,           \* the live-session count of the listener
    conns,          \* the connections at the listener, by number: idle, live,
                    \* refused or closed, and whether OK was written
    services,       \* Dispatcher.services, the tree of the REST handlers
    request,        \* the REST request dispatch was last called with
    response        \* what that call returned and what it logged

vars == <<cstream, rx, cin, cgot, bin, srcAllowed, transport, wcalls, other_side, runner, cmd,
          notify_ticket, destination, finished, stats_manager, stats, task,
          notifyTasks, upstream, connects, logs, fails, workers, live,
          conns, services, request, response>>

\* the state of the listener, and the state of one connection
listenerVars == <<workers, live, conns>>

\* the state of the REST dispatcher of the broker
restVars == <<services, request, response>>

engineVars ==
    <<cstream, rx, cin, cgot, bin, srcAllowed, transport, wcalls, other_side,
      runner, cmd, notify_ticket, destination, finished, stats_manager,
      stats, task, notifyTasks, upstream, connects, logs, fails>>

Sides == {"client", "backend"}

\* the part of the state the methods of TunnelProtocol read and write
State ==
    [transport |-> transport, wcalls |-> wcalls, other_side |-> other_side,
     runner |-> runner, cmd |-> cmd, notify_ticket |-> notify_ticket,
     destination |-> destination, finished |-> finished,
     stats_manager |-> stats_manager, stats |-> stats,
     task |-> task, notifyTasks |-> notifyTasks, logs |-> logs]

\* the next state is s
Becomes(s) ==
    /\ transport' = s.transport
    /\ wcalls' = s.wcalls
    /\ other_side' = s.other_side
    /\ runner' = s.runner
    /\ cmd' = s.cmd
    /\ notify_ticket' = s.notify_ticket
    /\ destination' = s.destination
    /\ finished' = s.finished
    /\ stats_manager' = s.stats_manager
    /\ stats' = s.stats
    /\ task' = s.task
    /\ notifyTasks' = s.notifyTasks
    /\ logs' = s.logs

\* a transport no connection has been made on
NoTransport ==
    [made |-> FALSE, closing |-> FALSE, connLost |-> FALSE,
     lostSched |-> FALSE, lostCalled |-> FALSE, readPaused |-> FALSE,
     wbuf |-> 0, protoPaused |-> FALSE]

\* the open_other_side task before process_open creates it
NoResult == [unset |-> TRUE]

NoTask ==
    [pc |-> "none", ticket |-> <<>>, result |-> NoResult, outcome |-> "none"]

(***************************************************************************)
(* The asyncio transport, as the engine uses it.                           *)
(***************************************************************************)
\* transport.write(data): nothing for an empty data; dropped once the
\* connection is lost; buffered otherwise, and the protocol's pause_writing
\* is called when the buffer passes the high-water mark
transport_write(s, t, kind, data) ==
    LET tr == s.transport[t] IN
    IF data = <<>> THEN s
    ELSE IF tr.connLost
    THEN [s EXCEPT !.wcalls[t] =
              Append(@, [kind |-> kind, data |-> data, accepted |-> FALSE,
                         closed |-> TRUE])]
    ELSE [s EXCEPT !.wcalls[t] =
              Append(@, [kind |-> kind, data |-> data, accepted |-> TRUE,
                         closed |-> tr.closing]),
              !.transport[t].wbuf = @ + Len(data),
              !.transport[t].protoPaused =
                  @ \/ (tr.wbuf + Len(data) > HighWater)]

\* transport.close(): idempotent; stops reading; the connection is lost at
\* once when nothing is buffered, and after the buffer is flushed otherwise
transport_close(s, t) ==
    LET tr == s.transport[t] IN
    IF tr.closing THEN s
    ELSE IF tr.wbuf = 0
    THEN [s EXCEPT !.transport[t].closing = TRUE,
                   !.transport[t].connLost = TRUE,
                   !.transport[t].lostSched = TRUE]
    ELSE [s EXCEPT !.transport[t].closing = TRUE]

\* transport.pause_reading()
transport_pause_reading(s, t) ==
    IF s.transport[t].closing \/ s.transport[t].readPaused THEN s
    ELSE [s EXCEPT !.transport[t].readPaused = TRUE]

\* transport.resume_reading()
transport_resume_reading(s, t) ==
    IF s.transport[t].closing \/ ~s.transport[t].readPaused THEN s
    ELSE [s EXCEPT !.transport[t].readPaused = FALSE]

\* logger.info / logger.error
log(s, line) == [s EXCEPT !.logs = Append(@, line)]

(***************************************************************************)
(* Collaborators outside the sources: stats.py and the configuration.      *)
(***************************************************************************)
\* counter.add(n): the client-side engine holds the sent counter of the
\* shared stats_manager, the backend-side engine its recv counter
counter_add(s, e, n) ==
    IF s.stats_manager[e] # "session" THEN s
    ELSE IF e = "client" THEN [s EXCEPT !.stats.sent = @ + n]
    ELSE [s EXCEPT !.stats.recv = @ + n]

\* stats_manager.close()
stats_close(s) == [s EXCEPT !.stats.closed = TRUE]

\* cfg.secret, as code points
cfg_secret == Rep(PASSWORD_LENGTH, 115)

\* stats.GlobalStats.get_stats(args): the lines of the dump
get_stats == << <<49>> >>

\* source[0], the address of the client, and cfg.uds_token
SourceIp == "10.0.0.1"

\* source, the peername of the client transport
source == [host |-> SourceIp, port |-> "40000"]

(***************************************************************************)
(* TunnelProtocol.                                                         *)
(***************************************************************************)
\* notifyEnd without its test of the ticket: a task is created whatever the
\* engine holds
notifyEnd_unconditional(s, e) ==
    [s EXCEPT !.notifyTasks = Append(@, [ticket |-> s.notify_ticket[e]]),
              !.notify_ticket[e] = <<>>]

\* notifyEnd without its last line: the ticket is kept
notifyEnd_keeps_ticket(s, e) ==
    IF s.notify_ticket[e] # <<>>
    THEN [s EXCEPT !.notifyTasks = Append(@, [ticket |-> s.notify_ticket[e]])]
    ELSE s

\* notifyEnd: creates the notify task when a ticket is held, and drops the
\* ticket
notifyEnd(s, e) ==
    IF s.notify_ticket[e] # <<>>
    THEN [s EXCEPT !.notifyTasks = Append(@, [ticket |-> s.notify_ticket[e]]),
                   !.notify_ticket[e] = <<>>]
    ELSE s

\* close_connection
close_connection(s, e) ==
    LET s1 == transport_close(s, e) IN
    IF s1.destination[e].host # ""
    THEN notifyEnd(log(s1, "TERMINATED"), e)
    ELSE log(s1, "TERMINATED")

\* connection_lost that leaves the transport of the peer alone
connection_lost_keeps_peer(s, e) ==
    LET s1 == [s EXCEPT !.finished[e] = TRUE]
        s2 == IF s1.other_side[e] # e THEN s1 ELSE stats_close(s1)
    IN notifyEnd(s2, e)

\* connection_lost
connection_lost(s, e) ==
    LET s1 == [s EXCEPT !.finished[e] = TRUE]
        s2 == IF s1.other_side[e] # e
              THEN transport_close(s1, s1.other_side[e])
              ELSE stats_close(s1)
    IN notifyEnd(s2, e)

\* do_proxy that gives up the chunk when the peer's transport has signalled
\* pause_writing
do_proxy_drops_when_full(s, e, data) ==
    LET s1 == counter_add(s, e, Len(data)) IN
    IF s1.transport[s1.other_side[e]].protoPaused THEN s1
    ELSE transport_write(s1, s1.other_side[e], "proxy", data)

\* do_proxy
do_proxy(s, e, data) ==
    LET s1 == counter_add(s, e, Len(data)) IN
    transport_write(s1, s1.other_side[e], "proxy", data)

\* process_open without its last line: the runner stays do_command
process_open_keeps_runner(s) ==
    IF Len(s.cmd["client"]) < TICKET_LENGTH + COMMAND_LENGTH THEN s
    ELSE LET ticket == Drop(s.cmd["client"], COMMAND_LENGTH)
             s1 == transport_pause_reading(s, "client")
         IN [s1 EXCEPT !.cmd["client"] = <<>>,
                       !.task = [pc |-> "scheduled", ticket |-> ticket,
                                 result |-> NoResult, outcome |-> "none"]]

\* process_open without the call of pause_reading
process_open_nopause(s) ==
    IF Len(s.cmd["client"]) < TICKET_LENGTH + COMMAND_LENGTH THEN s
    ELSE LET ticket == Drop(s.cmd["client"], COMMAND_LENGTH)
         IN [s EXCEPT !.cmd["client"] = <<>>,
                      !.task = [pc |-> "scheduled", ticket |-> ticket,
                                result |-> NoResult, outcome |-> "none"],
                      !.runner["client"] = "do_proxy"]

\* process_open, up to the creation of the open_other_side task
process_open(s) ==
    IF Len(s.cmd["client"]) < TICKET_LENGTH + COMMAND_LENGTH THEN s
    ELSE LET ticket == Drop(s.cmd["client"], COMMAND_LENGTH)
             s1 == transport_pause_reading(s, "client")
         IN [s1 EXCEPT !.cmd["client"] = <<>>,
                       !.task = [pc |-> "scheduled", ticket |-> ticket,
                                 result |-> NoResult, outcome |-> "none"],
                       !.runner["client"] = "do_proxy"]

\* the loop of process_stats over the lines of the dump
RECURSIVE write_lines(_, _)
write_lines(s, lines) ==
    IF lines = <<>> THEN s
    ELSE write_lines(transport_write(s, "client", "stats",
                                     Head(lines) \o <<10>>),
                     Tail(lines))

\* process_stats whose address check does not return after its FORBIDDEN:
\* the password is checked next
process_stats_no_return(s, full, allowed) ==
    IF Len(s.cmd["client"]) < PASSWORD_LENGTH + COMMAND_LENGTH THEN s
    ELSE LET s0 == log(s, "COMMAND")
             s1 == IF allowed THEN s0
                   ELSE transport_write(s0, "client", "reply", B_FORBIDDEN)
             passwd == Drop(s1.cmd["client"], COMMAND_LENGTH)
             s2 == [s1 EXCEPT !.cmd["client"] = Take(@, 4)]
             s3 == write_lines(s2, get_stats)
         IN IF decode_ignore(passwd) # cfg_secret
            THEN close_connection(
                     transport_write(s2, "client", "reply", B_FORBIDDEN),
                     "client")
            ELSE close_connection(log(s3, "TERMINATED"), "client")

\* process_stats; allowed: the peer's address is in cfg.allow
process_stats(s, full, allowed) ==
    IF Len(s.cmd["client"]) < PASSWORD_LENGTH + COMMAND_LENGTH THEN s
    ELSE LET s1 == log(s, "COMMAND")
             passwd == Drop(s1.cmd["client"], COMMAND_LENGTH)
             s2 == [s1 EXCEPT !.cmd["client"] = Take(@, 4)]
             s3 == write_lines(s2, get_stats)
         IN IF ~allowed
            THEN close_connection(
                     transport_write(s1, "client", "reply", B_FORBIDDEN),
                     "client")
            ELSE IF decode_ignore(passwd) # cfg_secret
            THEN close_connection(
                     transport_write(s2, "client", "reply", B_FORBIDDEN),
                     "client")
            ELSE close_connection(log(s3, "TERMINATED"), "client")

\* do_command that answers TEST only to an address in cfg.allow
do_command_test_checks_source(s, data, allowed) ==
    LET s1 == [s EXCEPT !.cmd["client"] = @ \o data] IN
    IF Len(s1.cmd["client"]) < COMMAND_LENGTH THEN s1
    ELSE LET s2 == log(s1, "CONNECT FROM")
             command == Take(s2.cmd["client"], COMMAND_LENGTH)
         IN CASE command = COMMAND_OPEN -> process_open(s2)
              [] command = COMMAND_TEST ->
                   close_connection(
                       transport_write(log(s2, "COMMAND"), "client", "reply",
                                       IF allowed THEN B_OK ELSE B_FORBIDDEN),
                       "client")
              [] command \in {COMMAND_STAT, COMMAND_INFO} ->
                   process_stats(s2, command = COMMAND_STAT, allowed)
              [] OTHER ->
                   close_connection(
                       transport_write(log(s2, "ERROR"), "client", "reply",
                                       B_ERROR_COMMAND),
                       "client")

\* do_command whose except branch does not call close_connection
do_command_error_noclose(s, data, allowed) ==
    LET s1 == [s EXCEPT !.cmd["client"] = @ \o data] IN
    IF Len(s1.cmd["client"]) < COMMAND_LENGTH THEN s1
    ELSE LET s2 == log(s1, "CONNECT FROM")
             command == Take(s2.cmd["client"], COMMAND_LENGTH)
         IN CASE command = COMMAND_OPEN -> process_open(s2)
              [] command = COMMAND_TEST ->
                   close_connection(
                       transport_write(log(s2, "COMMAND"), "client", "reply",
                                       B_OK),
                       "client")
              [] command \in {COMMAND_STAT, COMMAND_INFO} ->
                   process_stats(s2, command = COMMAND_STAT, allowed)
              [] OTHER ->
                   transport_write(log(s2, "ERROR"), "client", "reply",
                                   B_ERROR_COMMAND)

\* do_command that takes TEST for OPEN
do_command_test_as_open(s, data, allowed) ==
    LET s1 == [s EXCEPT !.cmd["client"] = @ \o data] IN
    IF Len(s1.cmd["client"]) < COMMAND_LENGTH THEN s1
    ELSE LET s2 == log(s1, "CONNECT FROM")
             command == Take(s2.cmd["client"], COMMAND_LENGTH)
         IN CASE command \in {COMMAND_OPEN, COMMAND_TEST} -> process_open(s2)
              [] command \in {COMMAND_STAT, COMMAND_INFO} ->
                   process_stats(s2, command = COMMAND_STAT, allowed)
              [] OTHER ->
                   close_connection(
                       transport_write(log(s2, "ERROR"), "client", "reply",
                                       B_ERROR_COMMAND),
                       "client")

\* do_command
do_command(s, data, allowed) ==
    LET s1 == [s EXCEPT !.cmd["client"] = @ \o data] IN
    IF Len(s1.cmd["client"]) < COMMAND_LENGTH THEN s1
    ELSE LET s2 == log(s1, "CONNECT FROM")
             command == Take(s2.cmd["client"], COMMAND_LENGTH)
         IN CASE command = COMMAND_OPEN -> process_open(s2)
              [] command = COMMAND_TEST ->
                   close_connection(
                       transport_write(log(s2, "COMMAND"), "client", "reply",
                                       B_OK),
                       "client")
              [] command \in {COMMAND_STAT, COMMAND_INFO} ->
                   process_stats(s2, command = COMMAND_STAT, allowed)
              [] OTHER ->
                   close_connection(
                       transport_write(log(s2, "ERROR"), "client", "reply",
                                       B_ERROR_COMMAND),
                       "client")

\* data_received: the chunk goes to the current runner
data_received(s, e, data, allowed) ==
    IF s.runner[e] = "do_command" THEN do_command(s, data, allowed)
    ELSE do_proxy(s, e, data)

\* the url _readFromUDS builds, as its four path segments and its query
\* parameters in order (the numbers of the query stand for their decimal
\* numerals)
readFromUDS_url(ticket, msg, queryParams) ==
    [server |-> "uds_server", ticket |-> decode_ignore(ticket), msg |-> msg,
     token |-> "uds_token", query |-> queryParams]

\* the url of the request of getTicketFromUDS
getTicketFromUDS_url(ticket, address) ==
    readFromUDS_url(ticket, address.host, <<>>)

\* the url of notifyEndToUds with the two counters the wrong way round
notifyEndToUds_url_swapped(ticket, counter) ==
    readFromUDS_url(ticket, "stop",
                    << <<"sent", counter.recv>>, <<"recv", counter.sent>> >>)

\* the url of the request of notifyEndToUds
notifyEndToUds_url(ticket, counter) ==
    readFromUDS_url(ticket, "stop",
                    << <<"sent", counter.sent>>, <<"recv", counter.recv>> >>)

\* int(result['port']) does not raise: the value is a number, or a string
\* that spells one
int_ok(port) == port.type \in {"int", "numeric string"}

\* open_ticket_error without the call of transport.close
open_ticket_error_noclose(s, outcome) ==
    LET s1 == log(s, "ERROR")
        s2 == transport_write(s1, "client", "reply", B_ERROR_TICKET)
    IN [s2 EXCEPT !.task.pc = "done", !.task.outcome = outcome]

\* the except branch of open_other_side for a failed getTicketFromUDS
open_ticket_error(s, outcome) ==
    LET s1 == log(s, "ERROR")
        s2 == transport_write(s1, "client", "reply", B_ERROR_TICKET)
        s3 == transport_close(s2, "client")
    IN [s3 EXCEPT !.task.pc = "done", !.task.outcome = outcome]

\* open_other_side, from the result of getTicketFromUDS to the call of
\* loop.create_connection; a missing key or a port int() rejects raises out
\* of the task
open_store_result(s, result) ==
    LET s0 == [s EXCEPT !.task.result = result]
        crashed == [s0 EXCEPT !.task.pc = "crashed",
                              !.task.outcome = "exception"]
    IN IF ~({"host", "port"} \subseteq DOMAIN result) THEN crashed
       ELSE IF ~int_ok(result.port) THEN crashed
       ELSE LET s1 == [s0 EXCEPT !.destination["client"] =
                           [host |-> result.host, port |-> result.port.v]]
            IN IF "notify" \notin DOMAIN result
               THEN [s1 EXCEPT !.task.pc = "crashed",
                               !.task.outcome = "exception"]
               ELSE LET s2 == [s1 EXCEPT !.notify_ticket["client"] =
                                   str_encode(result.notify)]
                    IN [log(s2, "OPEN TUNNEL FROM") EXCEPT
                            !.task.pc = "connecting"]

\* the except branch of a failed connect without the call of
\* close_connection
open_connect_failed_noclose(s) ==
    LET s1 == log(s, "Error opening connection")
    IN [s1 EXCEPT !.task.pc = "done", !.task.outcome = "connect_failed"]

\* open_other_side: loop.create_connection raised
open_connect_failed(s) ==
    LET s1 == log(s, "Error opening connection")
        s2 == close_connection(s1, "client")
    IN [s2 EXCEPT !.task.pc = "done", !.task.outcome = "connect_failed"]

\* a backend-side engine that __init__ leaves in command mode
backend_made_command_mode(s) ==
    [s EXCEPT !.other_side["backend"] = "client",
              !.stats_manager["backend"] = s.stats_manager["client"],
              !.cmd["backend"] = <<>>,
              !.notify_ticket["backend"] = <<>>,
              !.destination["backend"] = [host |-> "", port |-> 0],
              !.transport["backend"].made = TRUE,
              !.task.pc = "connected"]

\* TunnelProtocol(self.owner, self) and its connection_made, both run by
\* loop.create_connection before it returns
backend_made(s) ==
    [s EXCEPT !.other_side["backend"] = "client",
              !.stats_manager["backend"] = s.stats_manager["client"],
              !.runner["backend"] = "do_proxy",
              !.cmd["backend"] = <<>>,
              !.notify_ticket["backend"] = <<>>,
              !.destination["backend"] = [host |-> "", port |-> 0],
              !.transport["backend"].made = TRUE,
              !.task.pc = "connected"]

\* open_other_side after the connect without the assignment of other_side
open_connected_nopair(s) ==
    LET s2 == transport_resume_reading(s, "client")
        s3 == transport_write(s2, "client", "reply", B_OK)
    IN [s3 EXCEPT !.task.pc = "done", !.task.outcome = "ok"]

\* open_other_side after loop.create_connection returned
open_connected(s) ==
    LET s1 == [s EXCEPT !.other_side["client"] = "backend"]
        s2 == transport_resume_reading(s1, "client")
        s3 == transport_write(s2, "client", "reply", B_OK)
    IN [s3 EXCEPT !.task.pc = "done", !.task.outcome = "ok"]

(***************************************************************************)
(* The REST dispatcher of the broker, uds.REST.dispatcher.Dispatcher        *)
(* (src/server/src/uds/REST/dispatcher.py).  A string is the sequence of   *)
(* its pieces, each "/" or a piece with no "/" in it; a node of the tree   *)
(* of handlers is named by the path that leads to it from the root.        *)
(***************************************************************************)
\* the most pieces in the arguments string of a request
MaxArgLen == 6

\* str.split('/'): the stretches between the slashes, empty ones included
RECURSIVE split(_)
split(str) ==
    IF \A i \in DOMAIN str : str[i] # "/" THEN <<str>>
    ELSE LET i == CHOOSE k \in DOMAIN str :
                      /\ str[k] = "/"
                      /\ \A j \in 1..(k - 1) : str[j] # "/"
         IN <<Take(str, i - 1)>> \o split(Drop(str, i))

\* '/'.join(lst)
RECURSIVE join(_)
join(lst) ==
    IF lst = <<>> THEN <<>>
    ELSE IF Len(lst) = 1 THEN lst[1]
    ELSE lst[1] \o <<"/">> \o join(Tail(lst))

\* str.lower(), on the names of the handler classes
lower(str) ==
    [i \in DOMAIN str |->
        CASE str[i] = "Connection" -> "connection"
          [] str[i] = "Notifiers" -> "notifiers"
          [] OTHER -> str[i]]

\* the handler classes: Connection sets neither name nor path, Notifiers
\* sets path = 'messaging'
Connection == [name |-> <<>>, typename |-> <<"Connection">>, path |-> <<>>]

Notifiers ==
    [name |-> <<>>, typename |-> <<"Notifiers">>, path |-> <<"messaging">>]

HandlerTypes == {Connection, Notifiers}

\* the handler of a node that has none
None == <<"None">>

\* Dispatcher.services before any class is registered: the root node, with
\* no handler and no children
NoServices == [node \in {<<>>} |-> None]

\* registerClass: the nodes of the path are created where missing, then the
\* node of the name, whose handler becomes the class
registerClass(svc, type_) ==
    LET name == IF type_.name = <<>> THEN lower(type_.typename)
                ELSE type_.name
        path == IF type_.path # <<>> THEN split(type_.path) ELSE <<>>
        service_node == path \o <<name>>
        nodes == DOMAIN svc \cup { Take(path, n) : n \in 1..Len(path) }
                 \cup {service_node}
    IN [node \in nodes |->
           IF node = service_node THEN type_.typename
           ELSE IF node \in DOMAIN svc THEN svc[node]
           ELSE None]

\* the while loop of dispatch: walks down the tree along the elements of
\* the path, skipping the empty ones, up to the first element that names no
\* child
RECURSIVE walk(_, _, _, _)
walk(svc, service, full_path_lst, path) ==
    IF path = <<>>
    THEN [service |-> service, full_path_lst |-> full_path_lst, path |-> path]
    ELSE IF Head(path) = <<>>
    THEN walk(svc, service, full_path_lst, Tail(path))
    ELSE IF Append(service, Head(path)) \in DOMAIN svc
    THEN walk(svc, Append(service, Head(path)),
              Append(full_path_lst, Head(path)), Tail(path))
    ELSE [service |-> service, full_path_lst |-> full_path_lst, path |-> path]

\* the responses of django.http dispatch returns
HttpResponseBadRequest == [type |-> "HttpResponseBadRequest", status_code |-> 400]

HttpResponseForbidden == [type |-> "HttpResponseForbidden", status_code |-> 403]

HttpResponseNotFound == [type |-> "HttpResponseNotFound", status_code |-> 404]

HttpResponseNotAllowed == [type |-> "HttpResponseNotAllowed", status_code |-> 405]

HttpResponseServerError == [type |-> "HttpResponseServerError", status_code |-> 500]

\* the first try of dispatch: the except clause that caught what the
\* constructor of the handler, processParameters or getattr raised
dispatch_construct(raised) ==
    CASE raised = "ParametersException" ->
           [logged |-> <<400>>, response |-> HttpResponseBadRequest]
      [] raised = "AttributeError" ->
           [logged |-> <<405>>, response |-> HttpResponseNotAllowed]
      [] raised = "AccessDenied" ->
           [logged |-> <<403>>, response |-> HttpResponseForbidden]
      [] OTHER ->
           [logged |-> <<500>>, response |-> HttpResponseServerError]

\* the second try of dispatch: the operation returned a response of the
\* given status, or the except clause that caught what it raised
dispatch_operation(raised, status_code) ==
    CASE raised = "none" ->
           [logged |-> <<status_code>>,
            response |-> [type |-> "HttpResponse",
                          status_code |-> status_code]]
      [] raised = "RequestError" ->
           [logged |-> <<400>>, response |-> HttpResponseBadRequest]
      [] raised = "ResponseError" ->
           [logged |-> <<500>>, response |-> HttpResponseServerError]
      [] raised = "NotSupportedError" ->
           [logged |-> <<501>>, response |-> HttpResponseBadRequest]
      [] raised = "AccessDenied" ->
           [logged |-> <<403>>, response |-> HttpResponseForbidden]
      [] raised = "NotFound" ->
           [logged |-> <<404>>, response |-> HttpResponseNotFound]
      [] raised = "HandlerError" ->
           [logged |-> <<500>>, response |-> HttpResponseBadRequest]
      [] OTHER ->
           [logged |-> <<500>>, response |-> HttpResponseServerError]

\* dispatch, from the list of the elements of the path: the class the
\* request is routed to, the arguments its constructor is given, the
\* response returned and the status codes handed to log.logOperation
dispatch_path(svc, path, req) ==
    LET w == walk(svc, <<>>, <<>>, path)
        cls == svc[w.service]
        routed == [called |-> TRUE, cls |-> cls,
                   full_path |-> join(w.full_path_lst), args |-> w.path]
        out == IF req.construct # "none" THEN dispatch_construct(req.construct)
               ELSE dispatch_operation(req.operation, req.status_code)
    IN IF cls = None
       THEN [called |-> TRUE, cls |-> cls, full_path |-> routed.full_path,
             args |-> <<>>, response |-> HttpResponseNotFound,
             logged |-> <<>>]
       ELSE [called |-> TRUE, cls |-> cls, full_path |-> routed.full_path,
             args |-> routed.args, response |-> out.response,
             logged |-> out.logged]

\* dispatch
dispatch(svc, req) == dispatch_path(svc, split(req.arguments), req)

\* the pieces the arguments of a request are made of
Pieces == {"/", "connection", "messaging", "notifiers"}

ArgumentStrings == UNION { [1..n -> Pieces] : n \in 0..MaxArgLen }

\* what the constructor of the handler or the lookup of the operation
\* raises, by the except clause that catches it
ConstructRaises ==
    {"ParametersException", "AttributeError", "AccessDenied", "Exception"}

\* what the operation of the handler raises, by the except clause that
\* catches it
OperationRaises ==
    {"RequestError", "ResponseError", "NotSupportedError", "AccessDenied",
     "NotFound", "HandlerError", "Exception"}

\* the ways the handler behaves: its constructor raises, its operation
\* raises, or the operation returns a response
Behaviours ==
    { [construct |-> c, operation |-> "none"] : c \in ConstructRaises }
    \cup { [construct |-> "none", operation |-> o] :
             o \in OperationRaises \cup {"none"} }

NoRequest ==
    [arguments |-> <<>>, construct |-> "none", operation |-> "none",
     status_code |-> 200]

NoResponse ==
    [called |-> FALSE, cls |-> None, full_path |-> <<>>, args |-> <<>>,
     response |-> HttpResponseNotFound, logged |-> <<>>]

\* the dispatcher before any class is registered and any request served
RestInit ==
    /\ services = NoServices
    /\ request = NoRequest
    /\ response = NoResponse

(***************************************************************************)
(* The inputs: what the client sends, what the broker answers, what the    *)
(* backend sends.                                                          *)
(***************************************************************************)
\* the first n bytes of "hi", the payload of the client
Payload(n) == Take(<<104, 105, 104, 105, 104, 105>>, n)

\* the first n bytes of "TEST", the stream of the backend
BackendPayload(n) == Take(<<84, 69, 83, 84, 84, 69, 83, 84>>, n)

\* a well-formed ticket
GoodTicket == Rep(TICKET_LENGTH, 65)

\* tickets the relay must reject: one byte short, a '-', a byte that is not
\* UTF-8, a two-byte character, and a well-formed ticket followed by a byte
\* that is not UTF-8
BadTickets ==
    { Rep(TICKET_LENGTH - 1, 65),
      Rep(TICKET_LENGTH - 1, 65) \o <<45>>,
      Rep(TICKET_LENGTH - 1, 65) \o <<255>>,
      Rep(TICKET_LENGTH - 2, 65) \o <<195, 169>>,
      GoodTicket \o <<255>> }

GoodPassword == Rep(PASSWORD_LENGTH, 115)

BadPassword == Rep(PASSWORD_LENGTH - 1, 115) \o <<120>>

\* the secret with its last byte replaced by one that is not UTF-8
UndecodablePassword == Rep(PASSWORD_LENGTH - 1, 115) \o <<255>>

\* a byte that is not UTF-8 followed by the secret: 41 bytes whose first 40
\* are not the secret
PaddedPassword == <<255>> \o GoodPassword

ClientStreams ==
    { COMMAND_OPEN \o GoodTicket \o Payload(n) : n \in 0..MaxPayload }
    \cup { COMMAND_OPEN \o t : t \in BadTickets }
    \cup { COMMAND_OPEN \o GoodTicket \o COMMAND_OPEN \o GoodTicket }
    \cup { COMMAND_TEST, COMMAND_TEST \o GoodTicket, <<88, 88, 88, 88>>,
           COMMAND_STAT \o GoodPassword, COMMAND_STAT \o BadPassword,
           COMMAND_STAT \o UndecodablePassword,
           COMMAND_STAT \o PaddedPassword,
           COMMAND_INFO \o GoodPassword, COMMAND_INFO \o BadPassword }

IsStatsStream(s) == Take(s, COMMAND_LENGTH) \in {COMMAND_STAT, COMMAND_INFO}

\* the streams whose command the address of the client may matter to
IsCommandStream(s) ==
    IsStatsStream(s) \/ Take(s, COMMAND_LENGTH) = COMMAND_TEST

\* what the backend sends: a prefix of its payload, or the four bytes of a
\* command
BackendStreams ==
    { BackendPayload(n) : n \in 0..MaxBackendPayload } \cup {COMMAND_TEST}

\* the places the stream of the client is cut into chunks at: inside the
\* command, after it, after the ticket and anywhere in the payload; a second
\* command that follows the ticket arrives whole
IsCut(pos) ==
    \/ pos \in {COMMAND_LENGTH - 1, COMMAND_LENGTH}
    \/ pos = COMMAND_LENGTH + TICKET_LENGTH
    \/ /\ pos > COMMAND_LENGTH + TICKET_LENGTH
       /\ Len(cstream) <= COMMAND_LENGTH + TICKET_LENGTH + MaxPayload

\* the sizes of the next chunk of the client: up to a cut, or all the rest
ChunkSizes ==
    { n \in 1..Len(cin) : IsCut(cgot + n) \/ n = Len(cin) }

\* the sizes of the next chunk of the backend: any size for the payload,
\* the whole of it for a command
BackendChunkSizes ==
    { n \in 1..Len(bin) : n = Len(bin) \/ bin # COMMAND_TEST }

NotifyToken == <<78, 49>>

\* a notify token with a character outside ASCII: "N\u00e9"
NotifyTokenLatin == <<78, 233>>

FullResult ==
    [host |-> "10.1.1.1", port |-> [type |-> "int", v |-> 5555],
     notify |-> NotifyToken]

\* the JSON objects the broker answers a resolve with: complete (the port a
\* number or a string spelling one, the notify token possibly empty), a port
\* that is no number, and one field missing
ResolveResults ==
    { FullResult,
      [FullResult EXCEPT !.port = [type |-> "numeric string", v |-> 5555],
                         !.notify = NotifyTokenLatin],
      [FullResult EXCEPT !.notify = <<>>],
      [FullResult EXCEPT !.port = [type |-> "string", v |-> 0]],
      [host |-> FullResult.host, port |-> FullResult.port],
      [host |-> FullResult.host, notify |-> FullResult.notify],
      [port |-> FullResult.port, notify |-> FullResult.notify] }

\* the ways the resolve request fails inside _readFromUDS
ResolveFailures == {"not ok", "timeout", "tls", "malformed json"}

(***************************************************************************)
(* Init: the client-side engine after __init__ and connection_made.        *)
(***************************************************************************)
EngineInit ==
    /\ fails = 0
    /\ cin \in ClientStreams
    /\ cstream = cin
    /\ srcAllowed \in (IF IsCommandStream(cin) THEN BOOLEAN ELSE {TRUE})
    /\ cgot = 0
    /\ rx = [e \in Sides |-> <<>>]
    /\ bin = <<>>
    /\ transport = [t \in Sides |->
                       IF t = "client" THEN [NoTransport EXCEPT !.made = TRUE]
                       ELSE NoTransport]
    /\ wcalls = [t \in Sides |-> <<>>]
    /\ other_side = [e \in Sides |-> e]
    /\ runner = [e \in Sides |-> "do_command"]
    /\ cmd = [e \in Sides |-> <<>>]
    /\ notify_ticket = [e \in Sides |-> <<>>]
    /\ destination = [e \in Sides |-> [host |-> "", port |-> 0]]
    /\ finished = [e \in Sides |-> FALSE]
    /\ stats_manager = [e \in Sides |->
                           IF e = "client" THEN "session" ELSE "none"]
    /\ stats = [sent |-> 0, recv |-> 0, closed |-> FALSE]
    /\ task = NoTask
    /\ notifyTasks = <<>>
    /\ upstream = <<>>
    /\ connects = 0
    /\ logs = <<>>

\* one connection, accepted by a listener that has a slot for it
Init ==
    /\ EngineInit
    /\ workers = 1
    /\ live = 1
    /\ conns = [c \in 1..MaxConns |->
                   [status |-> IF c = 1 THEN "live" ELSE "idle", ok |-> FALSE]]
    /\ RestInit

(***************************************************************************)
(* The callbacks of the event loop.                                        *)
(***************************************************************************)
\* the transport of side t delivers data to its protocol
Reading(t) ==
    /\ transport[t].made
    /\ ~transport[t].closing
    /\ ~transport[t].readPaused

\* data_received on the client-side engine
ClientData ==
    /\ Reading("client")
    /\ \E n \in ChunkSizes :
        /\ Becomes(data_received(State, "client", Take(cin, n), srcAllowed))
        /\ cin' = Drop(cin, n)
        /\ cgot' = cgot + n
        /\ rx' = IF runner["client"] = "do_proxy"
                 THEN [rx EXCEPT !["client"] = @ \o Take(cin, n)]
                 ELSE rx
    /\ UNCHANGED <<fails, listenerVars, restVars, cstream, bin, srcAllowed, upstream, connects>>

\* data_received on the backend-side engine
BackendData ==
    /\ Reading("backend")
    /\ \E n \in BackendChunkSizes :
        /\ Becomes(data_received(State, "backend", Take(bin, n), srcAllowed))
        /\ bin' = Drop(bin, n)
        /\ rx' = [rx EXCEPT !["backend"] = @ \o Take(bin, n)]
    /\ UNCHANGED <<fails, listenerVars, restVars, cstream, cin, cgot, srcAllowed, upstream, connects>>

\* the peer of side t has sent everything and closes: eof_received is not
\* overridden, so the transport closes itself
Eof(t) ==
    /\ Reading(t)
    /\ (IF t = "client" THEN cin ELSE bin) = <<>>
    /\ Becomes(transport_close(State, t))
    /\ UNCHANGED <<fails, listenerVars, restVars, cstream, rx, cin, cgot, bin, srcAllowed, upstream, connects>>

\* the connection of side t breaks: the transport drops its buffer and
\* schedules connection_lost
Abort(t) ==
    /\ transport[t].made
    /\ ~transport[t].connLost
    /\ transport' = [transport EXCEPT ![t].closing = TRUE,
                                      ![t].connLost = TRUE,
                                      ![t].lostSched = TRUE,
                                      ![t].wbuf = 0]
    /\ UNCHANGED <<fails, listenerVars, restVars, cstream, rx, cin, cgot, bin, srcAllowed, wcalls, other_side, runner, cmd,
                   notify_ticket, destination, finished, stats_manager,
                   stats, task, notifyTasks, upstream, connects, logs>>

\* the socket of side t takes the buffered bytes; a closing transport then
\* schedules connection_lost.  pause_writing and resume_writing are not
\* overridden by TunnelProtocol: only the transport's flag changes
Flush(t) ==
    /\ transport[t].made
    /\ ~transport[t].connLost
    /\ transport[t].wbuf > 0
    /\ transport' = [transport EXCEPT ![t].wbuf = 0,
                                      ![t].protoPaused = FALSE,
                                      ![t].connLost = transport[t].closing,
                                      ![t].lostSched = transport[t].closing]
    /\ UNCHANGED <<fails, listenerVars, restVars, cstream, rx, cin, cgot, bin, srcAllowed, wcalls, other_side, runner, cmd,
                   notify_ticket, destination, finished, stats_manager,
                   stats, task, notifyTasks, upstream, connects, logs>>

\* the scheduled connection_lost of side t runs
ConnectionLost(t) ==
    /\ transport[t].lostSched
    /\ LET s == [State EXCEPT !.transport[t].lostSched = FALSE,
                              !.transport[t].lostCalled = TRUE]
       IN Becomes(connection_lost(s, t))
    /\ UNCHANGED <<fails, listenerVars, restVars, cstream, rx, cin, cgot, bin, srcAllowed, upstream, connects>>

(***************************************************************************)
(* The open_other_side task, one action per stretch between two awaits.    *)
(***************************************************************************)
\* the task starts: getTicketFromUDS checks the ticket and _readFromUDS
\* builds the url and issues the request, or one of them raises
OpenStart ==
    /\ task.pc = "scheduled"
    /\ IF ticket_sane(task.ticket) /\ url_ticket_ok(task.ticket)
       THEN /\ upstream' = Append(upstream,
                                  [op |-> "resolve", ticket |-> task.ticket,
                                   msg |-> SourceIp, sent |-> 0, recv |-> 0,
                                   outcome |-> "pending",
                                   url |-> getTicketFromUDS_url(task.ticket,
                                                                source)])
            /\ Becomes([State EXCEPT !.task.pc = "resolving"])
       ELSE /\ Becomes(open_ticket_error(State, "ticket_error"))
            /\ UNCHANGED upstream
    /\ UNCHANGED <<fails, listenerVars, restVars, cstream, rx, cin, cgot, bin, srcAllowed, connects>>

\* the resolve request fails: _readFromUDS raises
ResolveFails ==
    /\ task.pc = "resolving"
    /\ \E why \in ResolveFailures :
        Becomes(open_ticket_error(State, why))
    /\ UNCHANGED <<fails, listenerVars, restVars, cstream, rx, cin, cgot, bin, srcAllowed, upstream, connects>>

\* the resolve request returns a JSON object
ResolveReturns ==
    /\ task.pc = "resolving"
    /\ \E result \in ResolveResults :
        LET s == open_store_result(State, result) IN
        /\ Becomes(s)
        /\ connects' = IF s.task.pc = "connecting" THEN connects + 1
                       ELSE connects
    /\ UNCHANGED <<fails, listenerVars, restVars, cstream, rx, cin, cgot, bin, srcAllowed, upstream>>

\* loop.create_connection raises
ConnectFails ==
    /\ task.pc = "connecting"
    /\ Becomes(open_connect_failed(State))
    /\ UNCHANGED <<fails, listenerVars, restVars, cstream, rx, cin, cgot, bin, srcAllowed, upstream, connects>>

\* loop.create_connection connects: the backend-side engine is built and
\* its connection_made called; the task is woken up later
BackendMade ==
    /\ task.pc = "connecting"
    /\ Becomes(backend_made(State))
    /\ bin' \in BackendStreams
    /\ UNCHANGED <<fails, listenerVars, restVars, cstream, rx, cin, cgot, srcAllowed, upstream, connects>>

\* the task runs again after loop.create_connection returned
OpenConnected ==
    /\ task.pc = "connected"
    /\ Becomes(open_connected(State))
    /\ UNCHANGED <<fails, listenerVars, restVars, cstream, rx, cin, cgot, bin, srcAllowed, upstream, connects>>

\* notifyEndToUds that runs again when its request failed
notifyEndToUds_retries(tasks, failed) ==
    IF failed THEN Append(Tail(tasks), Head(tasks)) ELSE Tail(tasks)

\* notifyEndToUds, run as a task of its own: the tasks left once the first
\* has issued its request; when the request fails _readFromUDS raises, the
\* exception ends the task and nobody awaits it
notifyEndToUds(tasks, failed) == Tail(tasks)

\* the ways the notify request ends
NotifyOutcomes == {"ok", "not ok", "timeout", "connection error"}

\* a notifyEndToUds task runs: it reads the counters and issues the
\* request, which succeeds or fails
NotifyRun ==
    /\ notifyTasks # <<>>
    /\ \E outcome \in NotifyOutcomes :
        /\ upstream' = Append(upstream,
                              [op |-> "stop",
                               ticket |-> Head(notifyTasks).ticket,
                               msg |-> "stop", sent |-> stats.sent,
                               recv |-> stats.recv, outcome |-> outcome,
                               url |-> notifyEndToUds_url(
                                           Head(notifyTasks).ticket, stats)])
        /\ notifyTasks' = notifyEndToUds(notifyTasks, outcome # "ok")
    /\ UNCHANGED <<fails, listenerVars, restVars, cstream, rx, cin, cgot, bin, srcAllowed, transport, wcalls, other_side,
                   runner, cmd, notify_ticket, destination, finished,
                   stats_manager, stats, task, connects, logs>>

Next ==
    \/ ClientData
    \/ BackendData
    \/ \E t \in Sides : Eof(t)
    \/ \E t \in Sides : Abort(t)
    \/ \E t \in Sides : Flush(t)
    \/ \E t \in Sides : ConnectionLost(t)
    \/ OpenStart
    \/ ResolveFails
    \/ ResolveReturns
    \/ ConnectFails
    \/ BackendMade
    \/ OpenConnected
    \/ NotifyRun

Spec == Init /\ [][Next]_vars

(***************************************************************************)
(* The listener: the accept path and the concurrency counter, which the    *)
(* sources of the engine do not hold.                                      *)
(***************************************************************************)
\* the accept test with > in the place of >=
listener_refuses_late(count, ceiling) == count > ceiling

\* the accept test: the live-session count has reached workers
listener_refuses(count, ceiling) == count >= ceiling

ListenerInit ==
    /\ EngineInit
    /\ cin = COMMAND_TEST
    /\ srcAllowed
    /\ workers \in 0..MaxWorkers
    /\ live = 0
    /\ conns = [c \in 1..MaxConns |-> [status |-> "idle", ok |-> FALSE]]
    /\ RestInit

\* connection c is accepted: it is closed at once when the count has reached
\* workers, and takes a slot otherwise
Accept(c) ==
    /\ conns[c].status = "idle"
    /\ IF listener_refuses(live, workers)
       THEN /\ conns' = [conns EXCEPT ![c].status = "refused"]
            /\ live' = live
       ELSE /\ conns' = [conns EXCEPT ![c].status = "live"]
            /\ live' = live + 1
    /\ UNCHANGED <<workers, engineVars, restVars>>

\* the engine of the live connection c completes its OPEN and writes OK
SessionOk(c) ==
    /\ conns[c].status = "live"
    /\ ~conns[c].ok
    /\ conns' = [conns EXCEPT ![c].ok = TRUE]
    /\ UNCHANGED <<workers, live, engineVars, restVars>>

\* the live connection c ends: connection_lost sets finished and the slot
\* is released
SessionEnd(c) ==
    /\ conns[c].status = "live"
    /\ conns' = [conns EXCEPT ![c].status = "closed"]
    /\ live' = live - 1
    /\ UNCHANGED <<workers, engineVars, restVars>>

\* the number c is used for a new connection
NewConnection(c) ==
    /\ conns[c].status \in {"refused", "closed"}
    /\ conns' = [conns EXCEPT ![c] = [status |-> "idle", ok |-> FALSE]]
    /\ UNCHANGED <<workers, live, engineVars, restVars>>

ListenerNext ==
    \E c \in 1..MaxConns :
        \/ Accept(c)
        \/ SessionOk(c)
        \/ SessionEnd(c)
        \/ NewConnection(c)

ListenerSpec == ListenerInit /\ [][ListenerNext]_vars

(***************************************************************************)
(* The REST dispatcher: the classes are registered when the module is      *)
(* imported (Dispatcher.initialize()), requests are dispatched afterwards. *)
(***************************************************************************)
\* the classes registered so far
Registered ==
    { t \in HandlerTypes :
        \E node \in DOMAIN services : services[node] = t.typename }

DispatchInit ==
    /\ EngineInit
    /\ cin = COMMAND_TEST
    /\ srcAllowed
    /\ workers = 1
    /\ live = 0
    /\ conns = [c \in 1..MaxConns |-> [status |-> "idle", ok |-> FALSE]]
    /\ RestInit

\* initialize registers the class type_
RegisterClass(type_) ==
    /\ type_ \notin Registered
    /\ services' = registerClass(services, type_)
    /\ UNCHANGED <<request, response, engineVars, listenerVars>>

\* a request is dispatched: dispatch keeps nothing from one request to the
\* next, so one request is followed
Dispatch ==
    /\ Registered = HandlerTypes
    /\ ~response.called
    /\ \E arguments \in ArgumentStrings, b \in Behaviours :
        /\ request' = [arguments |-> arguments, construct |-> b.construct,
                       operation |-> b.operation, status_code |-> 200]
        /\ response' = dispatch(services, request')
    /\ UNCHANGED <<services, engineVars, listenerVars>>

DispatchNext ==
    \/ \E type_ \in HandlerTypes : RegisterClass(type_)
    \/ Dispatch

DispatchSpec == DispatchInit /\ [][DispatchNext]_vars

(***************************************************************************)
(* What the claims speak of.                                               *)
(***************************************************************************)
\* the requests of one kind issued to the broker
Requests(op) == { i \in DOMAIN upstream : upstream[i].op = op }

\* the notify requests issued or about to be: a created task always issues
\* its request
NotifiesIssued == Cardinality(Requests("stop")) + Len(notifyTasks)

\* the calls of write on transport t that carry the reply data
Replies(t, data) ==
    { i \in DOMAIN wcalls[t] :
        wcalls[t][i].kind = "reply" /\ wcalls[t][i].data = data }

\* the calls of write on transport t made by do_proxy
ProxyCalls(t) == { i \in DOMAIN wcalls[t] : wcalls[t][i].kind = "proxy" }

\* the number of bytes do_proxy handed to transport t that the transport
\* took (a transport whose connection is lost discards what it is given)
RECURSIVE ForwardedIn(_)
ForwardedIn(calls) ==
    IF calls = <<>> THEN 0
    ELSE (IF Head(calls).kind = "proxy" /\ Head(calls).accepted
          THEN Len(Head(calls).data) ELSE 0) + ForwardedIn(Tail(calls))

Forwarded(t) == ForwardedIn(wcalls[t])

\* the byte b is one of [A-Za-z0-9]
IsAlnumByte(b) ==
    \/ b >= 48 /\ b <= 57
    \/ b >= 65 /\ b <= 90
    \/ b >= 97 /\ b <= 122

WellFormedTicket(ticket) ==
    /\ Len(ticket) = 48
    /\ \A i \in 1..Len(ticket) : IsAlnumByte(ticket[i])

\* the open_other_side task is between its creation and its last line
OpenInFlight == task.pc \in {"scheduled", "resolving", "connecting", "connected"}

\* the session was set up and the client has read OK: open_other_side ran
\* to its end and the transport of the client took the reply
OkSent ==
    /\ task.outcome = "ok"
    /\ \E i \in Replies("client", B_OK) : wcalls["client"][i].accepted

\* both engines have seen connection_lost and no task is left to run
SessionOver ==
    /\ finished["client"]
    /\ transport["backend"].made => finished["backend"]
    /\ task.pc \in {"none", "done", "crashed"}
    /\ notifyTasks = <<>>

(***************************************************************************)
(* The claims.                                                             *)
(***************************************************************************)
\* C1: at most one notify request is issued for a client connection,
\* whatever the order of the close_connection and connection_lost calls on
\* the two engines.
C1_AtMostOneNotify == NotifiesIssued <= 1

\* both close_connection (backend connect failed) and connection_lost ran on
\* the client-side engine while it held a notify ticket
C1_Witness ==
    /\ task.outcome = "connect_failed"
    /\ finished["client"]
    /\ Cardinality(Requests("stop")) = 1

\* C2 (as claimed): once a session in which the client got OK is over (the
\* broker having given a notify token), exactly one notify request was
\* issued, and its sent and recv are the numbers of bytes forwarded to the
\* backend and to the client.
C2_NotifyReportsForwardedBytes ==
    (OkSent /\ task.result.notify # <<>> /\ SessionOver) =>
        /\ Cardinality(Requests("stop")) = 1
        /\ \A i \in Requests("stop") :
             /\ upstream[i].sent = Forwarded("backend")
             /\ upstream[i].recv = Forwarded("client")

\* C3 (as claimed): when the resolve returned a notify token and
\* open_other_side ran to its end, exactly one notify request has been
\* issued once the session is over, also when the client was lost while the
\* resolve or the connect was in flight.
C3_NotifyOncePerResolvedSession ==
    (/\ task.outcome \in {"ok", "connect_failed"}
     /\ task.result.notify # <<>>
     /\ SessionOver) => Cardinality(Requests("stop")) = 1

\* C4: a resolve request is issued only for a ticket of exactly 48 bytes,
\* each in [A-Za-z0-9].
C4_ResolveOnlyWellFormedTickets ==
    \A i \in Requests("resolve") : WellFormedTicket(upstream[i].ticket)

\* a 48-byte ticket whose last byte is not UTF-8 was turned down with no
\* request issued
C4_Witness ==
    /\ task.ticket = Rep(TICKET_LENGTH - 1, 65) \o <<255>>
    /\ task.outcome = "ticket_error"
    /\ upstream = <<>>

\* the bytes received as the ticket of an OPEN command: those of the task,
\* or those waiting in the command buffer
TicketReceived ==
    IF task.pc # "none" THEN task.ticket
    ELSE Drop(cmd["client"], COMMAND_LENGTH)

\* C5 (as claimed): a client that sent OPEN and a ticket of the wrong length
\* or with a byte outside [A-Za-z0-9], and then closed, was answered
\* ERROR_TICKET and its transport closed by the relay.
C5_BadTicketAnswered ==
    (/\ cgot >= COMMAND_LENGTH
     /\ task.pc # "none" \/ Take(cmd["client"], COMMAND_LENGTH) = COMMAND_OPEN
     /\ ~WellFormedTicket(TicketReceived)
     /\ cin = <<>>
     /\ ~OpenInFlight
     /\ finished["client"]) => Replies("client", B_ERROR_TICKET) # {}

\* the resolve answer has the three fields and a port int() takes
CompleteResult(result) ==
    /\ {"host", "port", "notify"} \subseteq DOMAIN result
    /\ int_ok(result.port)

\* C6 (as claimed): after a resolve answer that lacks a field, or whose port
\* is no integer, ERROR_TICKET is written, the client transport closed and
\* no backend connection attempted.
C6_IncompleteResultAnswered ==
    (task.result # NoResult /\ ~CompleteResult(task.result)) =>
        /\ Replies("client", B_ERROR_TICKET) # {}
        /\ transport["client"].closing
        /\ connects = 0

\* C7: after a failed resolve request ERROR_TICKET is written to the
\* client, its transport is closed and no backend connection is attempted
\* or made.
C7_ResolveFailureAnswered ==
    task.outcome \in ResolveFailures =>
        /\ Replies("client", B_ERROR_TICKET) # {}
        /\ transport["client"].closing
        /\ connects = 0
        /\ ~transport["backend"].made

\* the resolve timed out and the client got ERROR_TICKET before its
\* connection was closed
C7_Witness ==
    /\ task.outcome = "timeout"
    /\ \E i \in Replies("client", B_ERROR_TICKET) : wcalls["client"][i].accepted
    /\ finished["client"]

\* C8 (as claimed): in proxy mode, while the peer's transport has signalled
\* pause_writing, reading on this side's transport is paused.
C8_ReadPausedWhilePeerFull ==
    \A e \in Sides :
        (/\ other_side[e] # e
         /\ runner[e] = "do_proxy"
         /\ transport[e].made /\ ~transport[e].closing
         /\ transport[other_side[e]].protoPaused) => transport[e].readPaused

\* C9: from the dispatch of a complete OPEN to the end of open_other_side
\* reading on the client transport is paused and no byte of the client is
\* delivered, and reading is resumed only by the step that follows a
\* successful backend connect.
C9_PausedUntilConnected ==
    /\ [](OpenInFlight => transport["client"].readPaused)
    /\ [][OpenInFlight => cin' = cin]_vars
    /\ [][(transport["client"].readPaused /\ ~transport'["client"].readPaused)
            => (task.pc = "connected" /\ task'.outcome = "ok")]_vars

\* the resolve is in flight, reading is paused and the client has bytes
\* waiting
C9_Witness ==
    /\ task.pc = "resolving"
    /\ transport["client"].readPaused
    /\ ~transport["client"].closing
    /\ cin # <<>>

\* C10 (as claimed): OK is written only by a task that resolved the ticket
\* and connected the backend, and every backend byte written to the client
\* comes after it.
C10_OkBeforeBackendBytes ==
    /\ Replies("client", B_OK) # {} =>
           \/ task.outcome = "ok"
           \/ Take(cmd["client"], COMMAND_LENGTH) = COMMAND_TEST
    /\ \A i \in ProxyCalls("client") :
           \E j \in Replies("client", B_OK) : j < i

\* C11: when the connection to the resolved host and port cannot be made,
\* the transport of the client is closed and OK is never written to it.
C11_ConnectFailureCloses ==
    task.outcome = "connect_failed" =>
        /\ transport["client"].closing
        /\ Replies("client", B_OK) = {}

\* the connect failed while the client was still there: nothing was written
\* to the client and its connection_lost has run
C11_Witness ==
    /\ task.outcome = "connect_failed"
    /\ wcalls["client"] = <<>>
    /\ finished["client"]
    /\ ~transport["backend"].made

\* the bytes do_proxy wrote to transport t, in the order of the calls
RECURSIVE ProxyBytesIn(_)
ProxyBytesIn(calls) ==
    IF calls = <<>> THEN <<>>
    ELSE (IF Head(calls).kind = "proxy" THEN Head(calls).data ELSE <<>>)
         \o ProxyBytesIn(Tail(calls))

ProxyBytes(t) == ProxyBytesIn(wcalls[t])

\* C12: in both directions the chunks do_proxy writes to the transport of
\* the peer, concatenated, are the chunks it received, concatenated: no byte
\* is lost, duplicated, altered or reordered on the way to transport.write.
C12_ForwardingByteExact ==
    /\ ProxyBytes("backend") = rx["client"]
    /\ ProxyBytes("client") = rx["backend"]

\* both directions carried their stream in two chunks each
C12_Witness ==
    /\ Cardinality(ProxyCalls("backend")) = 2
    /\ Cardinality(ProxyCalls("client")) = 2
    /\ rx["client"] = Payload(2)
    /\ rx["backend"] = BackendPayload(2)

\* C13 (as claimed): do_proxy never calls write on the transport of its peer
\* after that transport has been closed.
C13_NoWriteAfterPeerClosed ==
    \A t \in Sides : \A i \in ProxyCalls(t) : ~wcalls[t][i].closed

\* the two engines point at each other
Paired == other_side["client"] = "backend" /\ other_side["backend"] = "client"

\* C14: once the two engines are paired, connection_lost on either engine
\* closes the transport of its peer: from then on both transports of the
\* session are closed.
C14_LossClosesPeer ==
    [][\A e \in Sides :
         (Paired /\ ~finished[e] /\ finished'[e]) =>
             \A t \in Sides : transport'[t].closing]_vars

\* the backend was lost first, in a session that was paired and had the
\* client still connected: connection_lost of the backend-side engine closed
\* the transport of the client
C14_Witness ==
    /\ Paired
    /\ finished["backend"]
    /\ ~finished["client"]
    /\ transport["client"].closing
    /\ ~transport["client"].lostCalled

\* C15 (as claimed): no backend connection stays open for a session whose
\* client is lost: once connection_lost has run on the client-side engine
\* and open_other_side is over, a backend transport that was opened is
\* closed.
C15_NoBackendForLostClient ==
    (/\ finished["client"]
     /\ task.pc \in {"done", "crashed"}
     /\ transport["backend"].made) => transport["backend"].closing

\* the command the client sends: the first four bytes of its stream
CommandSent == Take(cstream, COMMAND_LENGTH)

\* C16: on a connection whose command is TEST, STAT or INFO no backend
\* socket is opened and no resolve request is issued.
C16_NoBackendForCommands ==
    CommandSent \in {COMMAND_TEST, COMMAND_STAT, COMMAND_INFO} =>
        /\ connects = 0
        /\ ~transport["backend"].made
        /\ Requests("resolve") = {}
        /\ task.pc = "none"

\* a TEST followed by 48 bytes that would make a ticket, received in one
\* chunk, was answered and the connection is over with no request issued
C16_Witness ==
    /\ cstream = COMMAND_TEST \o GoodTicket
    /\ cgot = Len(cstream)
    /\ finished["client"]
    /\ upstream = <<>>

\* C17: when the first four bytes received are none of OPEN, TEST, STAT and
\* INFO, ERROR_COMMAND is written to the client and the connection closed,
\* and no request is issued to the broker.
C17_UnknownCommandRejected ==
    (/\ cgot >= COMMAND_LENGTH
     /\ CommandSent \notin {COMMAND_OPEN, COMMAND_TEST, COMMAND_STAT,
                            COMMAND_INFO}) =>
        /\ Replies("client", B_ERROR_COMMAND) # {}
        /\ transport["client"].closing
        /\ upstream = <<>>
        /\ notifyTasks = <<>>
        /\ task.pc = "none"

\* "XXXX" was answered ERROR_COMMAND and the connection is over
C17_Witness ==
    /\ cstream = <<88, 88, 88, 88>>
    /\ \E i \in Replies("client", B_ERROR_COMMAND) : wcalls["client"][i].accepted
    /\ finished["client"]

\* the password the client sends after STAT or INFO
PasswordSent ==
    SubSeq(cstream, COMMAND_LENGTH + 1, COMMAND_LENGTH + PASSWORD_LENGTH)

\* the client has sent STAT or INFO and the whole password
StatsCommandReceived ==
    /\ CommandSent \in {COMMAND_STAT, COMMAND_INFO}
    /\ cgot >= COMMAND_LENGTH + PASSWORD_LENGTH

\* the calls of write on the client transport that carry a line of the dump
StatsLines ==
    { i \in DOMAIN wcalls["client"] : wcalls["client"][i].kind = "stats" }

\* C18 (as claimed): a STAT or INFO from an address outside allow, or with
\* a password that is not the secret, is answered FORBIDDEN, gets no line of
\* the dump and has its connection closed; for an address outside allow the
\* password is not looked at (the command buffer still holds it:
\* process_stats cuts the buffer down to the command right before it
\* compares the password).
C18_StatsForbidden ==
    (StatsCommandReceived /\ (~srcAllowed \/ PasswordSent # cfg_secret)) =>
        /\ Replies("client", B_FORBIDDEN) # {}
        /\ StatsLines = {}
        /\ transport["client"].closing
        /\ ~srcAllowed => cmd["client"] = cstream

\* C19: a TEST is answered OK and its connection closed as soon as the four
\* bytes of the command are in, whatever the address of the client and with
\* no argument needed; nothing else is written.
C19_TestAnswered ==
    (cgot >= COMMAND_LENGTH /\ CommandSent = COMMAND_TEST) =>
        /\ [kind |-> "reply", data |-> B_OK, accepted |-> TRUE,
            closed |-> FALSE] = wcalls["client"][1]
        /\ Len(wcalls["client"]) = 1
        /\ transport["client"].closing

\* a TEST with no argument, from an address outside allow, was answered OK
\* and the connection is over
C19_Witness ==
    /\ cstream = COMMAND_TEST
    /\ ~srcAllowed
    /\ Replies("client", B_OK) = {1}
    /\ finished["client"]

\* the lines of the dump written by the calls, concatenated
RECURSIVE StatsBytesIn(_)
StatsBytesIn(calls) ==
    IF calls = <<>> THEN <<>>
    ELSE (IF Head(calls).kind = "stats" THEN Head(calls).data ELSE <<>>)
         \o StatsBytesIn(Tail(calls))

\* the dump a new connection from an address in allow gets, at this moment,
\* for the command with the right password
DumpFor(command) ==
    LET new == [State EXCEPT
                   !.transport["client"] = [NoTransport EXCEPT !.made = TRUE],
                   !.wcalls["client"] = <<>>,
                   !.cmd["client"] = <<>>,
                   !.runner["client"] = "do_command"]
    IN StatsBytesIn(
           do_command(new, command \o GoodPassword, TRUE).wcalls["client"])

\* C20 (as claimed): the command selects the view: the dump written for an
\* authorised STAT (one line per live session) is not the dump an authorised
\* INFO (one line of totals) gets at the same moment, and the other way
\* round.
C20_CommandSelectsView ==
    (StatsCommandReceived /\ StatsLines # {}) =>
        /\ StatsBytesIn(wcalls["client"]) = DumpFor(CommandSent)
        /\ DumpFor(COMMAND_STAT) # DumpFor(COMMAND_INFO)

\* the number of logged lines with one of the tags
RECURSIVE CountLines(_, _)
CountLines(lines, tags) ==
    IF lines = <<>> THEN 0
    ELSE (IF Head(lines) \in tags THEN 1 ELSE 0) + CountLines(Tail(lines), tags)

\* C21 (as claimed): over the whole life of a connection exactly one
\* CONNECT FROM line and exactly one terminal line (TERMINATED or ERROR) are
\* logged, whatever the command, the chunks and the way the connection ends.
C21_OneConnectOneTerminalLine ==
    SessionOver =>
        /\ CountLines(logs, {"CONNECT FROM"}) = 1
        /\ CountLines(logs, {"TERMINATED", "ERROR"}) = 1

\* the two engines point at each other and hold the same Stats object
PairedAndSharing ==
    /\ Paired
    /\ stats_manager["backend"] = stats_manager["client"]
    /\ stats_manager["client"] = "session"

\* C24: once open_other_side has gone past its connect, the client-side and
\* the backend-side engine reference each other and hold the same Stats
\* object, and this never changes afterwards.
C24_EnginesPaired ==
    /\ [](task.outcome = "ok" => PairedAndSharing)
    /\ [][PairedAndSharing => PairedAndSharing']_vars

\* a paired session carried bytes both ways and is over
C24_Witness ==
    /\ task.outcome = "ok"
    /\ PairedAndSharing
    /\ stats.sent > 0 /\ stats.recv > 0
    /\ finished["client"] /\ finished["backend"]

\* the engines, the transports, the counters and the open_other_side task
EngineState ==
    <<transport, wcalls, other_side, runner, cmd, notify_ticket, destination,
      finished, stats_manager, stats, task, logs>>

\* the step is the run of a notify task whose request fails
NotifyFailedStep ==
    /\ Len(upstream') = Len(upstream) + 1
    /\ upstream'[Len(upstream')].op = "stop"
    /\ upstream'[Len(upstream')].outcome # "ok"

C27_CloseIdempotent ==
    \A e \in Sides :
        transport[e].made =>
            LET once == close_connection(State, e)
                twice == close_connection(once, e)
            IN /\ twice.notifyTasks = once.notifyTasks
               /\ twice.transport = once.transport
               /\ twice.logs = once.logs
               /\ twice = once

\* C28: the resolve request goes to uds_server/ticket/client_ip/uds_token,
\* the ticket being the one the client sent and client_ip the address of
\* its peer, with no query; the notify request goes to
\* uds_server/notify_token/stop/uds_token with the query sent=, recv= and
\* nothing else, the token being the notify value the resolve returned.
C28_RequestUrls ==
    /\ \A i \in Requests("resolve") :
         upstream[i].url =
             [server |-> "uds_server",
              ticket |-> SubSeq(cstream, COMMAND_LENGTH + 1,
                                COMMAND_LENGTH + TICKET_LENGTH),
              msg |-> SourceIp, token |-> "uds_token", query |-> <<>>]
    /\ \A i \in Requests("stop") :
         upstream[i].url =
             [server |-> "uds_server", ticket |-> task.result.notify,
              msg |-> "stop", token |-> "uds_token",
              query |-> << <<"sent", upstream[i].sent>>,
                           <<"recv", upstream[i].recv>> >>]

\* the notify request of a session whose token has a character outside
\* ASCII was issued after bytes went one way only
C28_Witness ==
    /\ Requests("resolve") # {}
    /\ \E i \in Requests("stop") :
         /\ upstream[i].url.ticket = NotifyTokenLatin
         /\ upstream[i].sent # upstream[i].recv

\* the most bytes the command buffer of the client-side engine has held:
\* what it holds now or, once process_open has dispatched, the command and
\* the ticket it took out of the buffer
BufferPeak ==
    IF task.pc # "none" THEN COMMAND_LENGTH + Len(task.ticket)
    ELSE Len(cmd["client"])

\* C29 (as claimed): the command buffer never holds more than 52 bytes
\* before OPEN completes, whatever the chunks of the client, and is empty
\* once OPEN has been dispatched.
C29_CommandBufferBounded ==
    /\ BufferPeak <= COMMAND_LENGTH + TICKET_LENGTH
    /\ Len(cmd["backend"]) <= COMMAND_LENGTH + TICKET_LENGTH
    /\ task.pc # "none" => cmd["client"] = <<>>

\* C30: the backend-side engine is in proxy mode from its creation: it
\* keeps no command buffer, what it receives (a command such as TEST
\* included) goes to the client as it is and is never answered; and an
\* engine in proxy mode stays in proxy mode.
C30_BackendNeverCommandMode ==
    /\ [](transport["backend"].made =>
            /\ runner["backend"] = "do_proxy"
            /\ cmd["backend"] = <<>>
            /\ ProxyBytes("client") = rx["backend"]
            /\ \A i \in DOMAIN wcalls["backend"] :
                   wcalls["backend"][i].kind = "proxy")
    /\ [][\A e \in Sides :
            runner[e] = "do_proxy" => runner'[e] = "do_proxy"]_vars

\* the backend sent TEST: the four bytes went to the client after the OK of
\* the OPEN and nothing was written back to the backend
C30_Witness ==
    /\ rx["backend"] = COMMAND_TEST
    /\ ProxyBytes("client") = COMMAND_TEST
    /\ Cardinality(Replies("client", B_OK)) = 1
    /\ wcalls["backend"] = <<>>
    /\ finished["backend"]

\* the connections that hold a slot
LiveConns == { c \in 1..MaxConns : conns[c].status = "live" }

\* C22: the live sessions are never more than workers; a connection that
\* arrives when the count has reached workers is closed without OK; a
\* session that ends gives its slot back (the count is the number of live
\* sessions); with workers = 0 no connection is ever live.
C22_LiveSessionsBounded ==
    /\ Cardinality(LiveConns) <= workers
    /\ live = Cardinality(LiveConns)
    /\ \A c \in 1..MaxConns : conns[c].status = "refused" => ~conns[c].ok
    /\ workers = 0 => LiveConns = {}

\* workers = 2: two sessions are live and have their OK, a third connection
\* was refused
C22_Witness ==
    /\ workers = 2
    /\ Cardinality(LiveConns) = 2
    /\ \A c \in LiveConns : conns[c].ok
    /\ \E c \in 1..MaxConns : conns[c].status = "refused"

\* the connection ended in a command-phase failure: a bad command, a bad
\* ticket or a forbidden STAT or INFO
CommandPhaseFailure ==
    \/ Replies("client", B_ERROR_COMMAND) # {}
    \/ task.outcome = "ticket_error"
    \/ Replies("client", B_FORBIDDEN) # {}

\* C23 (as claimed): every command-phase failure adds one to the failure
\* counter of the address of the client (the counter the accept path reads
\* to drop the connections of an address that failed ALLOWED_FAILS times in
\* a row).
C23_FailuresCounted == CommandPhaseFailure => fails >= 1

\* C31 (as claimed): the outcome depends on the bytes the client sends and
\* not on the chunks they arrive in: the ticket open_other_side works on is
\* the 48 bytes that follow OPEN in the stream, and when these make a
\* well-formed ticket it is not turned down, whether the payload came in the
\* chunk of the ticket or in a later one.
C31_ChunkingIrrelevant ==
    (CommandSent = COMMAND_OPEN /\ task.pc # "none") =>
        LET sent == SubSeq(cstream, COMMAND_LENGTH + 1,
                           COMMAND_LENGTH + TICKET_LENGTH)
        IN /\ task.ticket = sent
           /\ WellFormedTicket(sent) => task.outcome # "ticket_error"

\* C32 (as claimed): a complete OPEN with a well-formed ticket ends in one of
\* three outcomes once the resolve and the connect have completed or failed
\* and open_other_side is over: OK written and proxying started,
\* ERROR_TICKET written and the transport closed, or the transport closed
\* without reply; the connection is not left with reading paused and no
\* reply.
C32_OpenReachesOutcome ==
    (WellFormedTicket(task.ticket) /\ task.pc \in {"done", "crashed"}) =>
        \/ /\ Replies("client", B_OK) # {}
           /\ runner["client"] = "do_proxy"
           /\ other_side["client"] = "backend"
        \/ /\ Replies("client", B_ERROR_TICKET) # {}
           /\ transport["client"].closing
        \/ /\ wcalls["client"] = <<>>
           /\ transport["client"].closing

\* C33: for a client connection at most one resolve request is issued and at
\* most one backend connection attempted, whatever the client sends (a
\* second OPEN with a ticket included) and in whatever chunks.
C33_OneResolveOneConnect ==
    /\ Cardinality(Requests("resolve")) <= 1
    /\ connects <= 1

\* the client sent a second OPEN and ticket after the OK of the first: the
\* 52 bytes went to the backend and one request, one connect were made
C33_Witness ==
    /\ cstream = COMMAND_OPEN \o GoodTicket \o COMMAND_OPEN \o GoodTicket
    /\ cin = <<>>
    /\ rx["client"] = COMMAND_OPEN \o GoodTicket
    /\ ProxyBytes("backend") = rx["client"]
    /\ Cardinality(Requests("resolve")) = 1
    /\ connects = 1

\* C34: no byte received from the client is written back to the transport
\* of the client: do_proxy never runs on client data while the client-side
\* engine still has itself as other_side (the resolve or the connect in
\* flight, or open_other_side over without a backend), and what do_proxy
\* writes to the client is what the backend sent.
C34_NoEchoToClient ==
    /\ other_side["client"] = "client" => rx["client"] = <<>>
    /\ ProxyBytes("client") = rx["backend"]

\* the connect is in flight: the client-side engine is in proxy mode with
\* itself as other_side, the client has payload waiting and nothing was
\* written to it
C34_Witness ==
    /\ task.pc = "connecting"
    /\ runner["client"] = "do_proxy"
    /\ other_side["client"] = "client"
    /\ cin = Payload(2)
    /\ ~transport["client"].closing
    /\ wcalls["client"] = <<>>

\* the calls of write on the client transport that carry a status reply
StatusReplies ==
    { i \in DOMAIN wcalls["client"] : wcalls["client"][i].kind = "reply" }

\* C35: at most one status reply among OK, ERROR_TICKET, ERROR_COMMAND and
\* FORBIDDEN is written on a client connection, and nothing is written to
\* the client after ERROR_TICKET, ERROR_COMMAND or FORBIDDEN.
C35_OneStatusReply ==
    /\ Cardinality(StatusReplies) <= 1
    /\ \A i \in StatusReplies :
         /\ wcalls["client"][i].data \in
                {B_OK, B_ERROR_TICKET, B_ERROR_COMMAND, B_FORBIDDEN}
         /\ wcalls["client"][i].data # B_OK => i = Len(wcalls["client"])

\* a STAT with the right password from an address outside allow got its
\* FORBIDDEN and nothing else, and the connection is over
C35_Witness ==
    /\ cstream = COMMAND_STAT \o GoodPassword
    /\ ~srcAllowed
    /\ Len(wcalls["client"]) = 1
    /\ wcalls["client"][1].data = B_FORBIDDEN
    /\ wcalls["client"][1].accepted
    /\ finished["client"]

\* the tickets of the notify tasks created: those of the requests issued and
\* of the tasks still to run
NotifyTickets ==
    { upstream[i].ticket : i \in Requests("stop") }
    \cup { notifyTasks[i].ticket : i \in DOMAIN notifyTasks }

\* C36: a notify request is issued only on a connection whose OPEN was
\* resolved with a notify token that is not empty, and carries that token:
\* none for TEST, STAT, INFO or an unknown command, for a rejected ticket or
\* a failed resolve; the backend-side engine holds no token and issues
\* none.
C36_NotifyOnlyWhenResolved ==
    /\ notify_ticket["backend"] = <<>>
    /\ NotifyTickets # {} =>
         /\ CommandSent = COMMAND_OPEN
         /\ task.outcome \notin ResolveFailures \cup {"ticket_error"}
         /\ CompleteResult(task.result)
         /\ task.result.notify # <<>>
         /\ NotifyTickets = {str_encode(task.result.notify)}

\* the resolve returned an empty notify token: the session ran, carried
\* bytes and is over on both sides, and no notify request was issued
C36_Witness ==
    /\ task.outcome = "ok"
    /\ task.result.notify = <<>>
    /\ stats.sent > 0
    /\ SessionOver
    /\ finished["backend"]
    /\ Requests("stop") = {}

\* the elements of a path that are not empty
NonEmpty(path) == SelectSeq(path, LAMBDA element : element # <<>>)

\* C37 (as claimed): dispatch skips the empty elements of the path wherever
\* they occur: a request is routed to the handler, and with the remaining
\* arguments, of the same path without its empty elements (/x////y as
\* /x/y).
C37_EmptyElementsSkipped ==
    response.called =>
        LET clean == dispatch_path(services,
                                   NonEmpty(split(request.arguments)), request)
        IN /\ response.cls = clean.cls
           /\ response.args = clean.args

\* C38 (as claimed): whenever dispatch logs an operation, the status code it
\* hands to log.logOperation is the status code of the response it returns,
\* whatever the handler raised.
C38_LoggedStatusIsReturned ==
    response.called =>
        \A i \in DOMAIN response.logged :
            response.logged[i] = response.response.status_code

====
